---- MODULE Spec2Model ----
(***************************************************************************)
(* Model of src/jobs/upcoming.js: the job that reconciles the subreddit     *)
(* launch manifest against the upcoming launches of the registry.          *)
(*                                                                         *)
(* Text is a sequence of one-character strings, so that the fuzzy matcher,  *)
(* the date patterns and the clean-up replacements are computed character   *)
(* by character.  The empty sequence also stands for JavaScript's           *)
(* undefined where a string is expected (fuzzball's full_process turns a    *)
(* non-string into "").                                                     *)
(***************************************************************************)
EXTENDS Integers, Sequences, FiniteSets, TLC

----------------------------------------------------------------------------
(* Characters and elementary string operations                             *)

Digit == {"0", "1", "2", "3", "4", "5", "6", "7", "8", "9"}
LowerSeq == <<"a", "b", "c", "d", "e", "f", "g", "h", "i", "j", "k", "l", "m",
              "n", "o", "p", "q", "r", "s", "t", "u", "v", "w", "x", "y", "z">>
UpperSeq == <<"A", "B", "C", "D", "E", "F", "G", "H", "I", "J", "K", "L", "M",
              "N", "O", "P", "Q", "R", "S", "T", "U", "V", "W", "X", "Y", "Z">>
Lower == {LowerSeq[i] : i \in DOMAIN LowerSeq}
Upper == {UpperSeq[i] : i \in DOMAIN UpperSeq}
Letter == Lower \cup Upper
White == {" "}

SetMax(S) == CHOOSE e \in S : \A f \in S : f <= e
SetMin(S) == CHOOSE e \in S : \A f \in S : e <= f

\* String.prototype.toLowerCase, one character
ToLowerChar(c) ==
    IF c \in Upper THEN LowerSeq[CHOOSE i \in DOMAIN UpperSeq : UpperSeq[i] = c] ELSE c

ToLowerCase(s) == [i \in 1..Len(s) |-> ToLowerChar(s[i])]

\* String.prototype.trim
Trim(s) ==
    LET idx == {i \in 1..Len(s) : s[i] \notin White}
    IN  IF idx = {} THEN <<>> ELSE SubSeq(s, SetMin(idx), SetMax(idx))

\* needle occurs in s starting at position i (1-based)
OccursAt(s, needle, i) ==
    /\ i >= 1
    /\ i + Len(needle) - 1 <= Len(s)
    /\ \A k \in 1..Len(needle) : s[i + k - 1] = needle[k]

\* String.prototype.includes
Includes(s, needle) == \E i \in 1..(Len(s) + 1) : OccursAt(s, needle, i)

\* String.prototype.replace(string, string): the first occurrence only
ReplaceFirst(s, needle, by) ==
    IF ~Includes(s, needle) THEN s
    ELSE LET i == SetMin({k \in 1..(Len(s) + 1) : OccursAt(s, needle, k)})
         IN  SubSeq(s, 1, i - 1) \o by \o SubSeq(s, i + Len(needle), Len(s))

\* String.prototype.split('/')[0]
BeforeSlash(s) ==
    LET idx == {i \in 1..Len(s) : s[i] = "/"}
    IN  IF idx = {} THEN s ELSE SubSeq(s, 1, SetMin(idx) - 1)

\* replace(/(w1|w2|...)/gi, ' '): every non-overlapping occurrence, leftmost
\* first, of the first alternative (in the order written) that matches there,
\* ignoring case
RECURSIVE ReplaceWords(_, _, _)
ReplaceWords(s, words, i) ==
    IF i > Len(s) THEN <<>>
    ELSE LET low == ToLowerCase(s)
             hit == {w \in DOMAIN words : OccursAt(low, words[w], i)}
         IN  IF hit = {}
             THEN <<s[i]>> \o ReplaceWords(s, words, i + 1)
             ELSE <<" ">> \o ReplaceWords(s, words, i + Len(words[SetMin(hit)]))

----------------------------------------------------------------------------
(* fuzzball: full_process, ratio and partial_ratio as the job calls them    *)
(* (default options: full_process on, substitution cost 2).                 *)

RECURSIVE CollapseFrom(_, _)
CollapseFrom(s, i) ==
    IF i > Len(s) THEN <<>>
    ELSE IF s[i] \in White /\ i > 1 /\ s[i - 1] \in White
         THEN CollapseFrom(s, i + 1)
         ELSE <<s[i]>> \o CollapseFrom(s, i + 1)

\* full_process: non-word characters to spaces, runs of white space collapsed,
\* lower case, trimmed
full_process(s) ==
    LET spaced == [i \in 1..Len(s) |->
                      IF s[i] \in Letter \cup Digit THEN s[i] ELSE " "]
    IN  Trim(ToLowerCase(CollapseFrom(spaced, 1)))

Max2(x, y) == IF x >= y THEN x ELSE y

\* one row of the longest-common-subsequence table: row[k] is the entry for
\* the first k-1 characters of b (the Len tests only make TLC compute a row
\* before it is used)
RECURSIVE LcsRow(_, _, _, _, _)
LcsRow(prev, ai, b, j, cur) ==
    IF j > Len(b) THEN cur
    ELSE LET v == IF ai = b[j] THEN prev[j] + 1 ELSE Max2(prev[j + 1], cur[j])
             next == Append(cur, v)
         IN  IF Len(next) > 0 THEN LcsRow(prev, ai, b, j + 1, next) ELSE cur

RECURSIVE LcsFrom(_, _, _, _)
LcsFrom(a, b, i, prev) ==
    IF i > Len(a) THEN prev[Len(b) + 1]
    ELSE LET row == LcsRow(prev, a[i], b, 1, <<0>>)
         IN  IF Len(row) > 0 THEN LcsFrom(a, b, i + 1, row) ELSE 0

Lcs(a, b) == LcsFrom(a, b, 1, [k \in 1..(Len(b) + 1) |-> 0])

\* the edit distance with insertions and deletions at cost 1 and
\* substitutions at cost 2
Leven(a, b) == Len(a) + Len(b) - 2 * Lcs(a, b)

\* _ratio: Math.round(100 * (lensum - distance) / lensum), 0 for an empty string
RawRatio(a, b) ==
    IF Len(a) = 0 \/ Len(b) = 0 THEN 0
    ELSE LET lensum == Len(a) + Len(b)
         IN  (200 * (lensum - Leven(a, b)) + lensum) \div (2 * lensum)

\* fuzz.ratio
ratio(s1, s2) == RawRatio(full_process(s1), full_process(s2))

RECURSIVE RunLen(_, _, _, _, _, _)
RunLen(a, b, i, j, ahi, bhi) ==
    IF i <= ahi /\ j <= bhi /\ a[i] = b[j]
    THEN 1 + RunLen(a, b, i + 1, j + 1, ahi, bhi)
    ELSE 0

\* SequenceMatcher.findLongestMatch on a[alo..ahi], b[blo..bhi]: the longest
\* common block, the earliest in a, then the earliest in b
FindLongestMatch(a, b, alo, ahi, blo, bhi) ==
    LET cands == {<<i, j, RunLen(a, b, i, j, ahi, bhi)>> : i \in alo..ahi, j \in blo..bhi}
        best == SetMax({c[3] : c \in cands})
        bi == SetMin({c[1] : c \in {d \in cands : d[3] = best}})
        bj == SetMin({c[2] : c \in {d \in cands : d[3] = best /\ d[1] = bi}})
    IN  <<bi, bj, best>>

\* the offsets j - i of SequenceMatcher.getMatchingBlocks (without the final
\* empty block)
RECURSIVE MatchingOffsets(_, _, _, _, _, _)
MatchingOffsets(a, b, alo, ahi, blo, bhi) ==
    IF alo > ahi \/ blo > bhi THEN {}
    ELSE LET m == FindLongestMatch(a, b, alo, ahi, blo, bhi)
         IN  IF m[3] = 0 THEN {}
             ELSE {m[2] - m[1]}
                  \cup MatchingOffsets(a, b, alo, m[1] - 1, blo, m[2] - 1)
                  \cup MatchingOffsets(a, b, m[1] + m[3], ahi, m[2] + m[3], bhi)

\* _partial_ratio: the best ratio of the shorter string against the windows of
\* the longer one that the matching blocks line up
RawPartialRatio(p1, p2) ==
    IF Len(p1) = 0 \/ Len(p2) = 0 THEN 0
    ELSE LET shorter == IF Len(p1) <= Len(p2) THEN p1 ELSE p2
             longer == IF Len(p1) <= Len(p2) THEN p2 ELSE p1
             offs == MatchingOffsets(shorter, longer, 1, Len(shorter), 1, Len(longer))
                         \cup {Len(longer) - Len(shorter)}
             window(d) == LET st == Max2(d, 0)
                          IN  SubSeq(longer, st + 1,
                                     IF st + Len(shorter) <= Len(longer)
                                     THEN st + Len(shorter) ELSE Len(longer))
         IN  SetMax({RawRatio(shorter, window(d)) : d \in offs})

\* fuzz.partial_ratio
partial_ratio(s1, s2) == RawPartialRatio(full_process(s1), full_process(s2))

----------------------------------------------------------------------------
(* The anchored date patterns, matched by the set of positions (0..Len) that *)
(* the pattern read so far can have reached.                                *)

\* class* from the positions P
Star(t, P, class) ==
    {q \in 0..Len(t) : \E p \in P : p <= q /\ \A k \in (p + 1)..q : t[k] \in class}

\* class{lo,hi} from the positions P
Rep(t, P, class, lo, hi) ==
    {q \in 0..Len(t) :
        \E p \in P : (q - p) \in lo..hi /\ \A k \in (p + 1)..q : t[k] \in class}

\* the character c, optional
Opt(t, P, c) == P \cup {p + 1 : p \in {q \in P : q < Len(t) /\ t[q + 1] = c}}

\* the character c
Lit(t, P, c) == {p + 1 : p \in {q \in P : q < Len(t) /\ t[q + 1] = c}}

\* \s*$ from the positions P
AtEnd(t, P) == Len(t) \in Star(t, P, White)

\* ^\s*[0-9]{4}
YearPart(t) == Rep(t, Star(t, {0}, White), Digit, 4, 4)

\* ...\s*([a-z]{3}|[a-z]{3,9}), case-insensitive
MonthPart(t) == Rep(t, Star(t, YearPart(t), White), Letter, 3, 9)

\* ...\s*[0-9]{1,2}
DayPart(t) == Rep(t, Star(t, MonthPart(t), White), Digit, 1, 2)

\* ...\s*(\[?\s*[0-9]{2}:[0-9]{2}\s*\]?)
HourPart(t) ==
    LET open == Star(t, Opt(t, Star(t, DayPart(t), White), "["), White)
        hh == Rep(t, open, Digit, 2, 2)
        mm == Rep(t, Lit(t, hh, ":"), Digit, 2, 2)
    IN  Opt(t, Star(t, mm, White), "]")

yearPattern(t) == AtEnd(t, YearPart(t))
monthPattern(t) == AtEnd(t, MonthPart(t))
dayPattern(t) == AtEnd(t, DayPart(t))
hourPattern(t) == AtEnd(t, HourPart(t))

\* /^.*(tbd|tba).*$/i
tbdPattern(t) ==
    \/ Includes(ToLowerCase(t), <<"t", "b", "d">>)
    \/ Includes(ToLowerCase(t), <<"t", "b", "a">>)

\* the alternatives of /(~|early|mid|late|end|tbd|tba)/gi
NoiseWords ==
    << <<"~">>, <<"e", "a", "r", "l", "y">>, <<"m", "i", "d">>, <<"l", "a", "t", "e">>,
       <<"e", "n", "d">>, <<"t", "b", "d">>, <<"t", "b", "a">> >>

\* the alternatives of /(-|\[|\]|~|early|mid|late|end)/gi
StripWords ==
    << <<"-">>, <<"[">>, <<"]">>, <<"~">>, <<"e", "a", "r", "l", "y">>, <<"m", "i", "d">>,
       <<"l", "a", "t", "e">>, <<"e", "n", "d">> >>

cleanedwikiDate(cell) == Trim(BeforeSlash(ReplaceWords(cell, NoiseWords, 1)))

\* a variant of DatePrecision that tests the wiki date as it stands in the table
DatePrecisionRaw(cell) ==
    IF Includes(cell, <<"Q">>) THEN "quarter"
    ELSE IF Includes(cell, <<"H", "1">>) THEN "half"
    ELSE IF Includes(cell, <<"H", "2">>) THEN "half"
    ELSE IF yearPattern(cell) THEN "year"
    ELSE IF monthPattern(cell) THEN "month"
    ELSE IF dayPattern(cell) THEN "day"
    ELSE IF hourPattern(cell) THEN "hour"
    ELSE "none"

\* the precision the if-chain sets; "none" where it throws 'No date match'
DatePrecision(cell) ==
    LET c == cleanedwikiDate(cell)
    IN  IF Includes(c, <<"Q">>) THEN "quarter"
        ELSE IF Includes(c, <<"H", "1">>) THEN "half"
        ELSE IF Includes(c, <<"H", "2">>) THEN "half"
        ELSE IF yearPattern(c) THEN "year"
        ELSE IF monthPattern(c) THEN "month"
        ELSE IF dayPattern(c) THEN "day"
        ELSE IF hourPattern(c) THEN "hour"
        ELSE "none"

\* the local wikiDate after the if-chain
WikiDateAfter(cell) ==
    LET c == cleanedwikiDate(cell)
    IN  IF Includes(c, <<"Q">>) THEN ReplaceFirst(cell, <<"Q">>, <<>>)
        ELSE IF Includes(c, <<"H", "1">>) THEN ReplaceFirst(cell, <<"H", "1">>, <<"1">>)
        ELSE IF Includes(c, <<"H", "2">>) THEN ReplaceFirst(cell, <<"H", "2">>, <<"3">>)
        ELSE cell

\* the text handed to moment: the cell, stripped, with the UTC offset appended
DateText(text) ==
    Trim(BeforeSlash(ReplaceWords(text, StripWords, 1))) \o <<" ", "+", "0", "0", "0", "0">>

----------------------------------------------------------------------------
(* The texts of the model.  The state holds a text as a TLA+ string; Chars   *)
(* gives its characters.                                                    *)

TextTable ==
    {
    <<"SSO", <<"S", "S", "O">>>>,
    <<"SSO-A", <<"S", "S", "O", "-", "A">>>>,
    <<"Starlink 2", <<"S", "t", "a", "r", "l", "i", "n", "k", " ", "2">>>>,
    <<"Starlink 23", <<"S", "t", "a", "r", "l", "i", "n", "k", " ", "2", "3">>>>,
    <<"starlink 23", <<"s", "t", "a", "r", "l", "i", "n", "k", " ", "2", "3">>>>,
    <<"Mission X", <<"M", "i", "s", "s", "i", "o", "n", " ", "X">>>>,
    <<"CRS-2", <<"C", "R", "S", "-", "2">>>>,
    <<"GPS III SV04", <<"G", "P", "S", " ", "I", "I", "I", " ", "S", "V", "0", "4">>>>,
    <<"SSO-B label text", <<"S", "S", "O", "-", "B", " ", "l", "a", "b", "e", "l", " ", "t", "e", "x", "t">>>>,
    <<"Starlink 23 mission", <<"S", "t", "a", "r", "l", "i", "n", "k", " ", "2", "3", " ", "m", "i", "s", "s", "i", "o", "n">>>>,
    <<"Starlink-23", <<"S", "t", "a", "r", "l", "i", "n", "k", "-", "2", "3">>>>,
    <<"Mission X (demo)", <<"M", "i", "s", "s", "i", "o", "n", " ", "X", " ", "(", "d", "e", "m", "o", ")">>>>,
    <<"CRS-21", <<"C", "R", "S", "-", "2", "1">>>>,
    <<"Transporter", <<"T", "r", "a", "n", "s", "p", "o", "r", "t", "e", "r">>>>,
    <<"2020", <<"2", "0", "2", "0">>>>,
    <<"2020 Nov", <<"2", "0", "2", "0", " ", "N", "o", "v">>>>,
    <<"2020 Nov 4", <<"2", "0", "2", "0", " ", "N", "o", "v", " ", "4">>>>,
    <<"2020 Nov 4 [14:10]", <<"2", "0", "2", "0", " ", "N", "o", "v", " ", "4", " ", "[", "1", "4", ":", "1", "0", "]">>>>,
    <<"2020 Nov 4 14:10", <<"2", "0", "2", "0", " ", "N", "o", "v", " ", "4", " ", "1", "4", ":", "1", "0">>>>,
    <<"2020 Q4", <<"2", "0", "2", "0", " ", "Q", "4">>>>,
    <<"2021 H1", <<"2", "0", "2", "1", " ", "H", "1">>>>,
    <<"TBD 2021 H2", <<"T", "B", "D", " ", "2", "0", "2", "1", " ", "H", "2">>>>,
    <<"2020 Nov 4 ~", <<"2", "0", "2", "0", " ", "N", "o", "v", " ", "4", " ", "~">>>>,
    <<"early 2020 Nov 4", <<"e", "a", "r", "l", "y", " ", "2", "0", "2", "0", " ", "N", "o", "v", " ", "4">>>>,
    <<"soon", <<"s", "o", "o", "n">>>>,
    <<"2022 TBD", <<"2", "0", "2", "2", " ", "T", "B", "D">>>>,
    <<"tba 2021 September", <<"t", "b", "a", " ", "2", "0", "2", "1", " ", "S", "e", "p", "t", "e", "m", "b", "e", "r">>>>,
    <<"2020 Nov 4 TBD", <<"2", "0", "2", "0", " ", "N", "o", "v", " ", "4", " ", "T", "B", "D">>>>,
    <<"TBD 2020 Nov 4 [14:10]", <<"T", "B", "D", " ", "2", "0", "2", "0", " ", "N", "o", "v", " ", "4", " ", "[", "1", "4", ":", "1", "0", "]">>>>,
    <<"2021 Q1 tbd", <<"2", "0", "2", "1", " ", "Q", "1", " ", "t", "b", "d">>>>,
    <<"2021 H1 TBA", <<"2", "0", "2", "1", " ", "H", "1", " ", "T", "B", "A">>>>,
    <<"2020 Nov / Dec", <<"2", "0", "2", "0", " ", "N", "o", "v", " ", "/", " ", "D", "e", "c">>>>,
    <<"2020 q4", <<"2", "0", "2", "0", " ", "q", "4">>>>,
    <<"TBD", <<"T", "B", "D">>>>,
    <<"2021 Q3 / H2", <<"2", "0", "2", "1", " ", "Q", "3", " ", "/", " ", "H", "2">>>>,
    <<"2020Nov4", <<"2", "0", "2", "0", "N", "o", "v", "4">>>>,
    <<"2020 Nov 4 1410", <<"2", "0", "2", "0", " ", "N", "o", "v", " ", "4", " ", "1", "4", "1", "0">>>>,
    <<"20 Nov", <<"2", "0", " ", "N", "o", "v">>>>,
    <<"SLC-40", <<"S", "L", "C", "-", "4", "0">>>>,
    <<"SLC-40 / LC-39A", <<"S", "L", "C", "-", "4", "0", " ", "/", " ", "L", "C", "-", "3", "9", "A">>>>,
    <<"SLC-40 / BC", <<"S", "L", "C", "-", "4", "0", " ", "/", " ", "B", "C">>>>,
    <<"SLC-40, LC-39A", <<"S", "L", "C", "-", "4", "0", ",", " ", "L", "C", "-", "3", "9", "A">>>>,
    <<"LC-39A", <<"L", "C", "-", "3", "9", "A">>>>,
    <<"LC-39A / BC", <<"L", "C", "-", "3", "9", "A", " ", "/", " ", "B", "C">>>>,
    <<"LC-39A / SLC-40", <<"L", "C", "-", "3", "9", "A", " ", "/", " ", "S", "L", "C", "-", "4", "0">>>>,
    <<"SLC-4E", <<"S", "L", "C", "-", "4", "E">>>>,
    <<"BC", <<"B", "C">>>>,
    <<"BC / LC-39A", <<"B", "C", " ", "/", " ", "L", "C", "-", "3", "9", "A">>>>,
    <<"BC / SLC-40", <<"B", "C", " ", "/", " ", "S", "L", "C", "-", "4", "0">>>>,
    <<"LC-40", <<"L", "C", "-", "4", "0">>>>,
    <<"x", <<"x">>>>
    }


Chars(s) == IF s = "" THEN <<>> ELSE (CHOOSE e \in TextTable : e[1] = s)[2]

----------------------------------------------------------------------------
(* Bounds and inputs                                                        *)

\* the documents of the registry
MaxDocs == 3
\* the rows of a manifest that are drawn freely
MaxRows == 2
\* wikiDates, wikiPayloads and wikiLaunchpads keep the first 30 rows
WikiCutoff == 30

DocIds == 1..MaxDocs

\* the launch names, wiki payloads, wiki dates and wiki launchpads of the
\* model ("" is the payload of an empty table)
NameTexts ==
    {"SSO", "SSO-A", "Starlink 2", "Starlink 23", "starlink 23", "Mission X", "CRS-2",
     "CRS-21", "GPS III SV04", "Transporter"}
PayloadTexts ==
    {"", "SSO-A", "SSO-B label text", "Starlink 23 mission", "Starlink 23", "Starlink-23",
     "Starlink 2", "Mission X (demo)", "CRS-21", "Transporter", "x"}
DateTexts ==
    {"2020", "2020 Nov", "2020 Nov 4", "2020 Nov 4 [14:10]", "2020 Nov 4 14:10", "2020 Q4",
     "2021 H1", "TBD 2021 H2", "2020 Nov 4 ~", "early 2020 Nov 4", "soon", "2022 TBD",
     "tba 2021 September", "2020 Nov 4 TBD", "TBD 2020 Nov 4 [14:10]", "2021 Q1 tbd",
     "2021 H1 TBA", "2020 Nov / Dec", "2020 q4", "TBD", "2021 Q3 / H2", "2020Nov4",
     "2020 Nov 4 1410", "20 Nov"}
LaunchpadTexts ==
    {"SLC-40", "SLC-40 / LC-39A", "SLC-40 / BC", "SLC-40, LC-39A", "LC-39A", "LC-39A / BC",
     "LC-39A / SLC-40", "SLC-4E", "BC", "BC / LC-39A", "BC / SLC-40", "LC-40"}

\* the names and payloads of the runs of the name test
MatchNames == {"SSO-A", "Starlink 2", "Starlink 23", "CRS-2", "CRS-21"}
MatchLabels ==
    {"SSO-A", "SSO-B label text", "Starlink 23 mission", "Starlink 23", "Starlink-23",
     "Starlink 2", "Mission X (demo)", "CRS-21"}

\* a document of the registry: name, upcoming, auto_update
DocChoices == { <<"SSO-A", FALSE, TRUE>>, <<"SSO", TRUE, TRUE>>, <<"SSO-A", TRUE, FALSE>> }
\* the documents of the runs on long tables
LongDocChoices == { <<"Transporter", FALSE, TRUE>>, <<"SSO-A", TRUE, TRUE>> }

\* a table row: date, payload, launchpad (the other five columns hold "x")
RowChoices ==
    { <<"2020 Nov 4 [14:10]", "SSO-A", "SLC-40">>,
      <<"TBD 2021 H2", "SSO-B label text", "LC-39A / BC">>,
      <<"soon", "SSO-A", "SLC-4E">>,
      <<"2020 Q4", "SSO-B label text", "LC-40">> }
FillerRow == <<"2020", "Transporter", "BC">>
\* the rows after the filler rows of a long table
LongRowChoices ==
    { <<"2020 Nov 4 [14:10]", "SSO-A", "SLC-40">>,
      <<"TBD 2021 H2", "SSO-B label text", "LC-39A / BC">> }

TableLines(row) == <<row[1], "x", row[3], "x", "x", row[2], "x", "x">>

RECURSIVE Flatten(_)
Flatten(rows) == IF rows = <<>> THEN <<>> ELSE TableLines(Head(rows)) \o Flatten(Tail(rows))

\* the manifests: up to MaxRows rows
Manifests == {Flatten(rows) : rows \in UNION {[1..n -> RowChoices] : n \in 0..MaxRows}}

\* the long manifests: MaxRows rows, at the top of the table or after
\* WikiCutoff - 1 rows of another mission, so that rows fall on both sides of
\* the cutoff
LongManifests ==
    {Flatten([k \in 1..pad |-> FillerRow] \o rows) :
        pad \in {0, WikiCutoff - 1},
        rows \in [1..MaxRows -> LongRowChoices]}

----------------------------------------------------------------------------
(* The library calls and the date code on the texts of the model, computed  *)
(* once                                                                     *)

PartialRatioOf ==
    [n \in NameTexts |-> [p \in PayloadTexts |-> partial_ratio(Chars(n), Chars(p))]]
RatioOf == [n \in NameTexts |-> [p \in PayloadTexts |-> ratio(Chars(n), Chars(p))]]
PrecisionOf == [c \in DateTexts |-> DatePrecision(Chars(c))]
TbdOf == [c \in DateTexts |-> tbdPattern(Chars(c))]
WikiDateOf == [c \in DateTexts |-> WikiDateAfter(Chars(c))]
DateTextOf == [c \in DateTexts |-> DateText(Chars(c))]

----------------------------------------------------------------------------
(* State                                                                    *)

VARIABLES
    docs,               \* the registry: document id -> launch document
    wikiRow,            \* the non-empty lines of the manifest table
    HEALTHCHECK,        \* whether process.env.UPCOMING_HEALTHCHECK is set
    pc,                 \* where the job stands: the call it awaits, or its end
    inFlight,           \* the external calls issued and not yet completed
    upcoming,           \* rawLaunches.docs with upcoming === true, in order
    past,               \* rawLaunches.docs with upcoming === false, in order
    wikiDates,
    wikiPayloads,
    wikiLaunchpads,
    baseFlightNumber,
    flightNumbers,
    li,                 \* position in upcoming of the launch being compared
    wikiIndex,          \* zero-based index of the wiki payload being compared
    tbd,
    precision,
    wikiDate,
    launchpadName,      \* the name the launchpads query asks for
    rawUpdate,
    error,              \* what the catch block logged
    trace,              \* history: the calls and log lines of the current run
    docsAtStart,        \* history: the registry when the current run began
    afterComplete       \* history: the previous run ended without an error

vars == <<docs, wikiRow, HEALTHCHECK, pc, inFlight, upcoming, past, wikiDates,
          wikiPayloads, wikiLaunchpads, baseFlightNumber, flightNumbers, li, wikiIndex,
          tbd, precision, wikiDate, launchpadName, rawUpdate, error, trace, docsAtStart,
          afterComplete>>

env == <<wikiRow, HEALTHCHECK>>
locals == <<flightNumbers, li, wikiIndex, tbd, precision, wikiDate, launchpadName>>
history == <<docsAtStart, afterComplete>>

NoUpdate ==
    [flight_number |-> 0, date |-> <<>>, timezone |-> "none", date_precision |-> "none",
     launchpad |-> "none", tbd |-> FALSE]

\* a launch document as the job reads and patches it; date stands for
\* date_unix and date_utc, and with timezone for date_local
NewDoc(id, name, isUpcoming, auto) ==
    [id |-> id, name |-> name, flight_number |-> id, upcoming |-> isUpcoming,
     auto_update |-> auto, date |-> <<>>, timezone |-> "none",
     date_precision |-> "none", launchpad |-> "none", tbd |-> FALSE]

\* the launchpads the job asks the registry for
Launchpads ==
    [n \in {"CCAFS SLC 40", "KSC LC 39A", "VAFB SLC 4E", "STLS"} |->
        CASE n = "CCAFS SLC 40" -> [id |-> "pad-slc40", timezone |-> "America/New_York"]
          [] n = "KSC LC 39A" -> [id |-> "pad-lc39a", timezone |-> "America/New_York"]
          [] n = "VAFB SLC 4E" -> [id |-> "pad-slc4e", timezone |-> "America/Los_Angeles"]
          [] n = "STLS" -> [id |-> "pad-stls", timezone |-> "America/Chicago"]]

----------------------------------------------------------------------------
(* The steps of the job's synchronous code                                  *)

\* POST /launches/query with sort flight_number asc: the documents in an
\* ascending order (any order among equal flight numbers)
SortedDocs(d) ==
    {[i \in DocIds |-> d[o[i]]] :
        o \in {f \in [DocIds -> DocIds] :
                  /\ \A i, j \in DocIds : i # j => f[i] # f[j]
                  /\ \A i, j \in DocIds :
                        i < j => d[f[i]].flight_number <= d[f[j]].flight_number}}

\* variants of the two filters that keep every document
IsUpcomingAlways(doc) == doc.upcoming \in BOOLEAN
IsPastAlways(doc) == doc.upcoming \in BOOLEAN

IsUpcoming(doc) == doc.upcoming = TRUE
IsPast(doc) == doc.upcoming = FALSE

\* wikiRow.filter((_, index) => (index + k) % 8 === 0), for the zero-based
\* index off = (8 - k) % 8
Column(lines, off) ==
    LET n == IF Len(lines) > off THEN (Len(lines) - off + 7) \div 8 ELSE 0
    IN  [k \in 1..n |-> lines[8 * (k - 1) + off + 1]]

\* slice(0, 30)
Slice(s) == SubSeq(s, 1, IF Len(s) < WikiCutoff THEN Len(s) ELSE WikiCutoff)

\* /starlink/i.test(name)
starlinkPattern(name) ==
    Includes(ToLowerCase(Chars(name)), <<"s", "t", "a", "r", "l", "i", "n", "k">>)

StarlinkOf == [n \in NameTexts |-> starlinkPattern(n)]

\* a variant of NameMatches without the strict test of starlink names
NameMatchesPartial(name, wikiPayload) == PartialRatioOf[name][wikiPayload] = 100

\* the test of the matching loop: the partial ratio is 100 and, for a
\* starlink name, the ratio is 100 as well
NameMatches(name, wikiPayload) ==
    /\ PartialRatioOf[name][wikiPayload] = 100
    /\ ~(StarlinkOf[name] /\ RatioOf[name][wikiPayload] # 100)

\* a variant of BaseFlightNumber that never reuses the last past flight number
BaseFlightNumberNext(pst, payloads) == pst[Len(pst)].flight_number + 1

\* the base flight number, given a last past launch
BaseFlightNumber(pst, payloads) ==
    LET last == pst[Len(pst)]
        first == IF Len(payloads) = 0 THEN "" ELSE payloads[1]
    IN  IF PartialRatioOf[last.name][first] = 100
        THEN last.flight_number
        ELSE last.flight_number + 1

\* a variant of LaunchpadName whose chain ends in a default instead of a throw
LaunchpadNameOrDefault(launchpad) ==
    IF launchpad \in {"SLC-40", "SLC-40 / LC-39A", "SLC-40 / BC", "SLC-40, LC-39A"}
    THEN "CCAFS SLC 40"
    ELSE IF launchpad \in {"LC-39A", "LC-39A / BC", "LC-39A / SLC-40"} THEN "KSC LC 39A"
    ELSE IF launchpad = "SLC-4E" THEN "VAFB SLC 4E"
    ELSE "STLS"

\* the name of the launchpad queried for a wiki launchpad; "none" where the
\* chain throws 'No launchpad match'
LaunchpadName(launchpad) ==
    IF launchpad \in {"SLC-40", "SLC-40 / LC-39A", "SLC-40 / BC", "SLC-40, LC-39A"}
    THEN "CCAFS SLC 40"
    ELSE IF launchpad \in {"LC-39A", "LC-39A / BC", "LC-39A / SLC-40"} THEN "KSC LC 39A"
    ELSE IF launchpad = "SLC-4E" THEN "VAFB SLC 4E"
    ELSE IF launchpad \in {"BC", "BC / LC-39A", "BC / SLC-40"} THEN "STLS"
    ELSE "none"

\* a variant of Pairs that scans the payloads of a launch from the top again
PairsFromTop(l0, w0) ==
    {p \in (1..Len(upcoming)) \X (1..Len(wikiPayloads')) :
        /\ p[1] >= l0
        /\ upcoming[p[1]].auto_update
        /\ NameMatches(upcoming[p[1]].name, wikiPayloads'[p[2]])}

\* the (launch, payload) pairs, at or after position (l0, w0) of the two
\* nested loops, that pass the auto_update and name tests
Pairs(l0, w0) ==
    {p \in (1..Len(upcoming)) \X (1..Len(wikiPayloads')) :
        /\ p[1] > l0 \/ (p[1] = l0 /\ p[2] >= w0)
        /\ upcoming[p[1]].auto_update
        /\ NameMatches(upcoming[p[1]].name, wikiPayloads'[p[2]])}

\* the first of a set of pairs in the order of the loops
FirstPair(P) == CHOOSE p \in P : \A q \in P : p[1] < q[1] \/ (p[1] = q[1] /\ p[2] <= q[2])

\* a variant of HealthcheckSet that calls the healthcheck unconditionally
HealthcheckAlways == HEALTHCHECK \in BOOLEAN

\* if (HEALTHCHECK)
HealthcheckSet == HEALTHCHECK

Event(kind, l, row, fn) ==
    [ev |-> kind, l |-> l, id |-> IF l = 0 THEN 0 ELSE upcoming[l].id, row |-> row, fn |-> fn]

\* the loops run on from position (l0, w0) to the next await or to the end:
\* up to the launchpads query of the next matching pair, to a throw, or past
\* the loops to the healthcheck
Advance(l0, w0, tr, calls) ==
    \E P \in {Pairs(l0, w0)} :
        IF P = {}
        THEN /\ li' = Len(upcoming) + 1
             /\ wikiIndex' = 0
             /\ IF HealthcheckSet
                THEN /\ pc' = "health"
                     /\ inFlight' = calls \cup {"health"}
                     /\ trace' = Append(tr, Event("heartbeat", 0, 0, 0))
                ELSE /\ pc' = "done"
                     /\ inFlight' = calls
                     /\ trace' = tr
             /\ UNCHANGED <<flightNumbers, tbd, precision, wikiDate, launchpadName, error>>
        ELSE \E p \in {FirstPair(P)} :
             LET l == p[1]
                 w == p[2]
                 prec == PrecisionOf[wikiDates'[w]]
                 name == LaunchpadName(wikiLaunchpads'[w])
             IN  /\ li' = l
                 /\ wikiIndex' = w - 1
                 /\ tbd' = TbdOf[wikiDates'[w]]
                 /\ precision' = prec
                 /\ wikiDate' = WikiDateOf[wikiDates'[w]]
                 /\ launchpadName' = IF prec = "none" THEN "none" ELSE name
                 /\ flightNumbers' = IF prec = "none" THEN flightNumbers
                                     ELSE Append(flightNumbers, baseFlightNumber' + (w - 1))
                 /\ IF prec = "none"
                    THEN pc' = "failed" /\ error' = "No date match"
                         /\ inFlight' = calls /\ trace' = tr
                    ELSE IF name = "none"
                    THEN pc' = "failed" /\ error' = "No launchpad match"
                         /\ inFlight' = calls /\ trace' = tr
                    ELSE pc' = "lookup" /\ error' = error
                         /\ inFlight' = calls \cup {"launchpads"}
                         /\ trace' = Append(tr, Event("lookup", l, w - 1, 0))

\* PATCH /launches/:id as the registry applies it
Patched(doc, upd) ==
    [doc EXCEPT !.flight_number = upd.flight_number, !.date = upd.date,
                !.timezone = upd.timezone, !.date_precision = upd.date_precision,
                !.launchpad = upd.launchpad, !.tbd = upd.tbd]

----------------------------------------------------------------------------
(* Initial states and actions                                               *)

\* the job has not run yet
InitWith(d, lines, hc) ==
    /\ docs = d
    /\ wikiRow = lines
    /\ HEALTHCHECK = hc
    /\ pc = "idle"
    /\ inFlight = {}
    /\ upcoming = <<>>
    /\ past = <<>>
    /\ wikiDates = <<>>
    /\ wikiPayloads = <<>>
    /\ wikiLaunchpads = <<>>
    /\ baseFlightNumber = 0
    /\ flightNumbers = <<>>
    /\ li = 0
    /\ wikiIndex = 0
    /\ tbd = FALSE
    /\ precision = "none"
    /\ wikiDate = <<>>
    /\ launchpadName = "none"
    /\ rawUpdate = NoUpdate
    /\ error = "none"
    /\ trace = <<>>
    /\ docsAtStart = d
    /\ afterComplete = FALSE

Registry(choice) == [i \in DocIds |-> NewDoc(i, choice[i][1], choice[i][2], choice[i][3])]

Init ==
    \E choice \in [DocIds -> DocChoices], lines \in Manifests, hc \in BOOLEAN :
        InitWith(Registry(choice), lines, hc)

\* the runs on long tables
InitLong ==
    \E choice \in [DocIds -> LongDocChoices], lines \in LongManifests, hc \in BOOLEAN :
        InitWith(Registry(choice), lines, hc)

\* the runs of the name test: one past launch, upcoming launches of any of
\* the names, and a one-row table with any of the payloads
InitMatch ==
    \E name \in [DocIds -> MatchNames], label \in MatchLabels, hc \in BOOLEAN :
        InitWith([i \in DocIds |-> IF i = 1 THEN NewDoc(i, "Transporter", FALSE, TRUE)
                                              ELSE NewDoc(i, name[i], TRUE, TRUE)],
                 TableLines(<<"2020 Nov 4 [14:10]", label, "SLC-40">>), hc)

\* the runs of the date code: one past launch, upcoming launches named SSO,
\* and a one-row table for SSO-A with any of the dates and launchpads
InitDate ==
    \E date \in DateTexts, launchpad \in LaunchpadTexts, hc \in BOOLEAN :
        InitWith([i \in DocIds |-> IF i = 1 THEN NewDoc(i, "SSO-A", FALSE, TRUE)
                                              ELSE NewDoc(i, "SSO", TRUE, TRUE)],
                 TableLines(<<date, "SSO-A", launchpad>>), hc)

\* the job is called, the first time or again after a pass has ended: it posts
\* the launches query
Start ==
    /\ pc \in {"idle", "done", "failed"}
    /\ pc' = "query"
    /\ inFlight' = {"launches"}
    /\ upcoming' = <<>>
    /\ past' = <<>>
    /\ wikiDates' = <<>>
    /\ wikiPayloads' = <<>>
    /\ wikiLaunchpads' = <<>>
    /\ baseFlightNumber' = 0
    /\ flightNumbers' = <<>>
    /\ li' = 0
    /\ wikiIndex' = 0
    /\ tbd' = FALSE
    /\ precision' = "none"
    /\ wikiDate' = <<>>
    /\ launchpadName' = "none"
    /\ rawUpdate' = NoUpdate
    /\ error' = "none"
    /\ trace' = <<>>
    /\ docsAtStart' = docs
    /\ afterComplete' = (pc = "done")
    /\ UNCHANGED <<docs, env>>

\* the launches arrive; the job partitions them and requests the wiki page
QueryDone ==
    /\ pc = "query"
    /\ "launches" \in inFlight
    /\ \E sorted \in SortedDocs(docs) :
          /\ upcoming' = SelectSeq(sorted, IsUpcoming)
          /\ past' = SelectSeq(sorted, IsPast)
    /\ inFlight' = (inFlight \ {"launches"}) \cup {"wiki"}
    /\ pc' = "wiki"
    /\ UNCHANGED <<docs, env, wikiDates, wikiPayloads, wikiLaunchpads, baseFlightNumber,
                   locals, rawUpdate, error, trace, history>>

\* the wiki page arrives: the columns, the base flight number, and the loops
\* up to their first await
WikiDone ==
    /\ pc = "wiki"
    /\ "wiki" \in inFlight
    /\ wikiDates' = Slice(Column(wikiRow, 0))
    /\ wikiPayloads' = Slice(Column(wikiRow, 5))
    /\ wikiLaunchpads' = Slice(Column(wikiRow, 2))
    /\ IF Len(past) = 0
       THEN /\ pc' = "failed"
            /\ error' = "TypeError"
            /\ inFlight' = inFlight \ {"wiki"}
            /\ UNCHANGED <<baseFlightNumber, locals, trace>>
       ELSE /\ baseFlightNumber' = BaseFlightNumber(past, wikiPayloads')
            /\ Advance(1, 1, trace, inFlight \ {"wiki"})
    /\ UNCHANGED <<docs, env, upcoming, past, rawUpdate, history>>

\* the launchpad arrives: the update is built and logged, the patch is sent
LookupDone ==
    /\ pc = "lookup"
    /\ "launchpads" \in inFlight
    /\ rawUpdate' = [flight_number |-> baseFlightNumber + wikiIndex,
                     date |-> DateTextOf[wikiDates[wikiIndex + 1]],
                     timezone |-> Launchpads[launchpadName].timezone,
                     date_precision |-> precision,
                     launchpad |-> Launchpads[launchpadName].id,
                     tbd |-> tbd]
    /\ trace' = trace \o <<Event("lookupDone", li, wikiIndex, 0),
                           Event("log", li, wikiIndex, rawUpdate'.flight_number),
                           Event("patch", li, wikiIndex, rawUpdate'.flight_number)>>
    /\ inFlight' = (inFlight \ {"launchpads"}) \cup {"patch"}
    /\ pc' = "patch"
    /\ UNCHANGED <<docs, env, upcoming, past, wikiDates, wikiPayloads, wikiLaunchpads,
                   baseFlightNumber, locals, error, history>>

\* the patch is answered; the loops run on
PatchDone ==
    /\ pc = "patch"
    /\ "patch" \in inFlight
    /\ docs' = [docs EXCEPT ![upcoming[li].id] = Patched(@, rawUpdate)]
    /\ UNCHANGED <<env, upcoming, past, wikiDates, wikiPayloads, wikiLaunchpads,
                   baseFlightNumber, rawUpdate, history>>
    /\ Advance(li, wikiIndex + 2,
               Append(trace, Event("patchDone", li, wikiIndex, rawUpdate.flight_number)),
               inFlight \ {"patch"})

\* the healthcheck is answered
HealthDone ==
    /\ pc = "health"
    /\ "health" \in inFlight
    /\ pc' = "done"
    /\ inFlight' = inFlight \ {"health"}
    /\ trace' = Append(trace, Event("heartbeatDone", 0, 0, 0))
    /\ UNCHANGED <<docs, env, upcoming, past, wikiDates, wikiPayloads, wikiLaunchpads,
                   baseFlightNumber, locals, rawUpdate, error, history>>

\* an awaited call is rejected, or the wiki page has no table: the catch block
RequestFail ==
    /\ pc \in {"query", "wiki", "lookup", "patch", "health"}
    /\ pc' = "failed"
    /\ inFlight' = {}
    /\ \E e \in {"RequestError", "Broken wiki selector"} :
          /\ e = "Broken wiki selector" => pc = "wiki"
          /\ error' = e
    /\ UNCHANGED <<docs, env, upcoming, past, wikiDates, wikiPayloads, wikiLaunchpads,
                   baseFlightNumber, locals, rawUpdate, trace, history>>

Next ==
    \/ Start
    \/ QueryDone
    \/ WikiDone
    \/ LookupDone
    \/ PatchDone
    \/ HealthDone
    \/ RequestFail

Spec == Init /\ [][Next]_vars

SpecLong == InitLong /\ [][Next]_vars

SpecMatch == InitMatch /\ [][Next]_vars

SpecDate == InitDate /\ [][Next]_vars

----------------------------------------------------------------------------
(* Vocabulary of the properties.  The trace of a run holds, in order, the   *)
(* launchpads query of a pair ("lookup"), its answer ("lookupDone"), the    *)
(* log line ("log"), the patch ("patch"), its answer ("patchDone"), the     *)
(* healthcheck ("heartbeat") and its answer ("heartbeatDone"); a pair is a  *)
(* position l in upcoming and a zero-based row of the table.               *)

EventsOf(kind) == {i \in 1..Len(trace) : trace[i].ev = kind}

\* pair (l1, r1) comes before pair (l2, r2) in the order of the loops
Precedes(l1, r1, l2, r2) == l1 < l2 \/ (l1 = l2 /\ r1 < r2)

\* the pairs of the run whose launch is to be updated and whose name matches
MatchedPairs ==
    {p \in (1..Len(upcoming)) \X (0..(Len(wikiPayloads) - 1)) :
        /\ upcoming[p[1]].auto_update
        /\ NameMatches(upcoming[p[1]].name, wikiPayloads[p[2] + 1])}

\* the launchpad labels the resolver knows
KnownLabels ==
    {"SLC-40", "SLC-40 / LC-39A", "SLC-40 / BC", "SLC-40, LC-39A", "LC-39A", "LC-39A / BC",
     "LC-39A / SLC-40", "SLC-4E", "BC", "BC / LC-39A", "BC / SLC-40"}

CountIn(s, class) == Cardinality({i \in 1..Len(s) : s[i] \in class})

\* the precision of a date cell by the make-up of its noise-stripped text:
\* a Q, an H1 or H2, or else a year of four digits, a month name of three to
\* nine letters, a day of one or two digits and a time of four digits and a
\* colon
ShapeOfText(cell) ==
    LET c == cleanedwikiDate(cell)
        letters == CountIn(c, Letter)
        digits == CountIn(c, Digit)
        colons == CountIn(c, {":"})
        others == Len(c) - letters - digits - colons - CountIn(c, White \cup {"[", "]"})
    IN  IF CountIn(c, {"Q"}) > 0 THEN "quarter"
        ELSE IF \E i \in 1..(Len(c) - 1) : c[i] = "H" /\ c[i + 1] \in {"1", "2"} THEN "half"
        ELSE IF others > 0 THEN "none"
        ELSE IF letters = 0 /\ digits = 4 /\ colons = 0 THEN "year"
        ELSE IF letters \in 3..9 /\ digits = 4 /\ colons = 0 THEN "month"
        ELSE IF letters \in 3..9 /\ digits \in 5..6 /\ colons = 0 THEN "day"
        ELSE IF letters \in 3..9 /\ digits \in 9..10 /\ colons = 1 THEN "hour"
        ELSE "none"

ShapeOf == [c \in DateTexts |-> ShapeOfText(Chars(c))]

\* the raw cell contains "tbd" or "tba" in any case
TentativeText(cell) ==
    \E i \in 1..(Len(cell) - 2) :
        /\ cell[i] \in {"t", "T"}
        /\ cell[i + 1] \in {"b", "B"}
        /\ cell[i + 2] \in {"d", "D", "a", "A"}

TentativeOf == [c \in DateTexts |-> TentativeText(Chars(c))]

\* the date text with the quarter or half token replaced, as handed on for
\* the instant
ReplacedTextOf == [c \in DateTexts |-> DateText(WikiDateAfter(Chars(c)))]

\* the row's date fits no pattern or its launchpad is no known label
Unreadable(row) ==
    \/ ShapeOf[wikiDates[row + 1]] = "none"
    \/ wikiLaunchpads[row + 1] \notin KnownLabels

\* the last answered patch of each launch is what the registry holds
PatchesKept ==
    \A i \in EventsOf("patchDone") :
        (\A j \in EventsOf("patchDone") : trace[j].id = trace[i].id => j <= i)
            => docs[trace[i].id].flight_number = trace[i].fn

----------------------------------------------------------------------------
(* Properties                                                               *)

\* C1: if the date of a matched pair fits no pattern or its launchpad is no
\* known label, the pass aborts at that pair: no patch is issued for that
\* pair or a later one, no healthcheck is sent, the pass does not complete,
\* and the patches answered before stay in the registry.
C1_AbortAtUnreadableRow ==
    /\ \A p \in MatchedPairs :
          Unreadable(p[2]) =>
              /\ pc \notin {"health", "done"}
              /\ EventsOf("heartbeat") = {}
              /\ \A i \in EventsOf("patch") : Precedes(trace[i].l, trace[i].row, p[1], p[2])
    /\ error \in {"No date match", "No launchpad match"} =>
          /\ pc = "failed"
          /\ inFlight = {}
          /\ Unreadable(wikiIndex)
          /\ <<li, wikiIndex>> \in MatchedPairs
          /\ PatchesKept

\* a pass patched a launch and then aborted at a row with an unknown launchpad
C1_Witness ==
    /\ pc = "failed"
    /\ error = "No launchpad match"
    /\ EventsOf("patchDone") # {}
    /\ wikiLaunchpads[wikiIndex + 1] \notin KnownLabels

\* the launch document is upcoming, is to be updated, and its name matches
\* the payload
EligibleMatch(doc, wikiPayload) ==
    doc.upcoming /\ doc.auto_update /\ NameMatches(doc.name, wikiPayload)

PatchesOf(id, row) == {i \in EventsOf("patch") : trace[i].id = id /\ trace[i].row = row}

\* C2: a patch is issued only for a launch that is upcoming, has auto_update
\* set and whose name matches the payload of the row; and when the pass
\* completes, every such launch and row of the table has exactly one patch,
\* which was answered.
C2_PatchExactlyEligibleMatches ==
    /\ \A i \in EventsOf("patch") :
          EligibleMatch(docs[trace[i].id], wikiPayloads[trace[i].row + 1])
    /\ pc = "done" =>
          \A id \in DocIds, r \in 1..Len(wikiPayloads) :
              EligibleMatch(docs[id], wikiPayloads[r]) =>
                  /\ Cardinality(PatchesOf(id, r - 1)) = 1
                  /\ \A i \in PatchesOf(id, r - 1) : trace[i + 1].ev = "patchDone"

\* a complete pass patched one launch for two rows, next to a past launch
\* and a launch without auto_update whose names match a row as well
C2_Witness ==
    /\ pc = "done"
    /\ \E id \in DocIds : PatchesOf(id, 0) # {} /\ PatchesOf(id, 1) # {}
    /\ \E id \in DocIds : ~docs[id].upcoming /\ NameMatches(docs[id].name, wikiPayloads[1])
    /\ \E id \in DocIds :
          docs[id].upcoming /\ ~docs[id].auto_update
              /\ NameMatches(docs[id].name, wikiPayloads[1])

\* the past launch with the highest flight number
LastPastDoc ==
    CHOOSE d \in {docs[i] : i \in {k \in DocIds : ~docs[k].upcoming}} :
        \A i \in DocIds : ~docs[i].upcoming => docs[i].flight_number <= d.flight_number

\* the payload of a zero-based row of the table
PayloadOfRow(row) == wikiRow[8 * row + 6]

\* the base: the flight number of the last past launch if its name partially
\* matches the payload of the first row, the next number otherwise
ExpectedBase ==
    IF PartialRatioOf[LastPastDoc.name][PayloadOfRow(0)] = 100
    THEN LastPastDoc.flight_number
    ELSE LastPastDoc.flight_number + 1

\* C3: the flight number of every update logged and patched is the base plus
\* the row's zero-based position in the table, which is one of the first 30
\* rows; the base is the flight number of the past launch with the highest
\* flight number if its name partially matches the payload of the first row,
\* and that number plus one otherwise.
C3_FlightNumberIsBasePlusRow ==
    EventsOf("log") # {} =>
        \A base \in {ExpectedBase} :
            /\ \A i \in EventsOf("log") \cup EventsOf("patch") :
                  /\ trace[i].row \in 0..(WikiCutoff - 1)
                  /\ NameMatches(docs[trace[i].id].name, PayloadOfRow(trace[i].row))
                  /\ trace[i].fn = base + trace[i].row
            /\ pc = "patch" => rawUpdate.flight_number = base + wikiIndex
            /\ \A i \in EventsOf("patchDone") :
                  (docs[trace[i].id].flight_number - base) \in 0..(WikiCutoff - 1)

\* a complete pass over a table of more than 30 rows patched the launch of
\* row 29 with the flight number of the last past launch plus 29, and left
\* alone row 30, whose payload matches as well
C3_Witness ==
    /\ pc = "done"
    /\ Len(wikiRow) > 8 * WikiCutoff
    /\ ExpectedBase = LastPastDoc.flight_number
    /\ \E i \in EventsOf("patch") :
          /\ trace[i].row = WikiCutoff - 1
          /\ trace[i].fn = LastPastDoc.flight_number + WikiCutoff - 1
          /\ NameMatches(docs[trace[i].id].name, PayloadOfRow(WikiCutoff))

\* the event that follows an event of the trace
FollowedBy(kind) ==
    CASE kind = "lookup" -> {"lookupDone"}
      [] kind = "lookupDone" -> {"log"}
      [] kind = "log" -> {"patch"}
      [] kind = "patch" -> {"patchDone"}
      [] kind = "patchDone" -> {"lookup", "heartbeat"}
      [] kind = "heartbeat" -> {"heartbeatDone"}
      [] kind = "heartbeatDone" -> {}

\* C10: at most one external call is in flight; for each pair the launchpads
\* query is answered, then the update is logged, then the patch is sent and
\* answered, before the next pair is looked at or the healthcheck is sent;
\* the patches follow the order of the loops: the launches in ascending order
\* of the flight numbers the query returned, and for a launch the rows in
\* ascending order.
C10_OneCallAtATimeInLoopOrder ==
    /\ Cardinality(inFlight) <= 1
    /\ (inFlight # {}) = (pc \in {"query", "wiki", "lookup", "patch", "health"})
    /\ \A i \in 1..(Len(trace) - 1) :
          /\ trace[i + 1].ev \in FollowedBy(trace[i].ev)
          /\ trace[i].ev \in {"lookup", "lookupDone", "log", "patch"} =>
                trace[i + 1].l = trace[i].l /\ trace[i + 1].row = trace[i].row
    /\ Len(trace) > 0 => trace[1].ev \in {"lookup", "heartbeat"}
    /\ \A i, j \in EventsOf("patch") :
          i < j => Precedes(trace[i].l, trace[i].row, trace[j].l, trace[j].row)
    /\ \A l1, l2 \in 1..Len(upcoming) :
          l1 < l2 => docsAtStart[upcoming[l1].id].flight_number
                        <= docsAtStart[upcoming[l2].id].flight_number

\* a complete pass patched two launches, the first of them for two rows
C10_Witness ==
    /\ pc = "done"
    /\ \E i, j, k \in EventsOf("patchDone") :
          /\ i < j /\ j < k
          /\ trace[i].l = trace[j].l /\ trace[i].row < trace[j].row
          /\ trace[j].l < trace[k].l

\* the healthcheck is sent at most once, after every patch was answered, and
\* nothing is looked up or patched after it
HeartbeatLast ==
    /\ Cardinality(EventsOf("heartbeat")) <= 1
    /\ \A h \in EventsOf("heartbeat") :
          /\ \A i \in 1..Len(trace) : trace[i].ev # "heartbeatDone" => i <= h
          /\ Cardinality(EventsOf("patch")) = Cardinality(EventsOf("patchDone"))

\* C6, as stated: in every pass that completes, the healthcheck is sent
\* exactly once, after the last patch was answered and never before a patch.
C6_HeartbeatOnceAsStated ==
    /\ HeartbeatLast
    /\ pc = "done" => Cardinality(EventsOf("heartbeat")) = 1

\* C6: in every pass that completes, the healthcheck is sent exactly once if
\* a healthcheck address is configured and not at all otherwise; it is sent
\* after the last patch was answered and never before a patch.
C6_HeartbeatOnceWhenConfigured ==
    /\ HeartbeatLast
    /\ pc = "done" =>
          /\ Cardinality(EventsOf("heartbeat")) = (IF HEALTHCHECK THEN 1 ELSE 0)
          /\ Cardinality(EventsOf("heartbeatDone")) = (IF HEALTHCHECK THEN 1 ELSE 0)
    /\ EventsOf("heartbeat") # {} => HEALTHCHECK

\* a complete pass patched a launch and then sent the healthcheck
C6_Witness ==
    /\ pc = "done"
    /\ HEALTHCHECK
    /\ EventsOf("patchDone") # {}
    /\ trace[Len(trace)].ev = "heartbeatDone"

\* the update leaves the fields of a launch document as they are
SameValues(doc, upd) == Patched(doc, upd) = doc

\* the row of the update in hand is the last row that matches its launch
LastRowOfLaunch ==
    \A r \in (wikiIndex + 2)..Len(wikiPayloads) :
        ~NameMatches(upcoming[li].name, wikiPayloads[r])

\* C9, as stated: in a pass that follows a complete pass on the same table,
\* every update holds the values its launch document holds already, the
\* registry after the pass equals the registry before it, and the pass
\* raises no error of its own.
C9_NoChangeAsStated ==
    afterComplete =>
        /\ pc = "patch" => SameValues(docs[upcoming[li].id], rawUpdate)
        /\ pc = "done" => docs = docsAtStart
        /\ error \notin {"No date match", "No launchpad match", "TypeError"}

\* C9: in a pass that follows a complete pass on the same table, the last
\* update of every launch holds the values its launch document held when the
\* pass began, the registry after the pass equals the registry before it,
\* and the pass raises no error of its own.
C9_SecondPassRestoresRegistry ==
    afterComplete =>
        /\ (pc = "patch" /\ LastRowOfLaunch) =>
              SameValues(docsAtStart[upcoming[li].id], rawUpdate)
        /\ pc = "done" => docs = docsAtStart
        /\ error \notin {"No date match", "No launchpad match", "TypeError"}

\* a second complete pass patched a launch for two rows
C9_Witness ==
    /\ afterComplete
    /\ pc = "done"
    /\ \E i, j \in EventsOf("patchDone") :
          trace[i].id = trace[j].id /\ trace[i].fn # trace[j].fn

\* the loops went on to the launchpads query for the launch at position l
Accepted(l) == \E i \in EventsOf("lookup") : trace[i].l = l

\* the name of the launch at position l and the payload of the only row
NameAndLabel(l) == <<upcoming[l].name, wikiPayloads[1]>>

StarlinkNames == {"Starlink 2", "Starlink 23"}

\* the pairs of a starlink name and a payload that is the name itself, up to
\* case and punctuation
StarlinkSame ==
    {<<"Starlink 23", "Starlink 23">>, <<"Starlink 23", "Starlink-23">>,
     <<"Starlink 2", "Starlink 2">>}

\* C4, as stated: on a one-row table the name test accepts "Starlink 23"
\* for the payload "Starlink 23 mission", and rejects "Starlink 2" for
\* "Starlink 23 mission" and "SSO-A" for "SSO-B label text".
C4_MatchesAsStated ==
    Len(wikiPayloads) = 1 =>
        \A l \in 1..Len(upcoming) :
            /\ NameAndLabel(l) \in {<<"Starlink 2", "Starlink 23 mission">>,
                                    <<"SSO-A", "SSO-B label text">>} => ~Accepted(l)
            /\ (pc = "done" /\ NameAndLabel(l) = <<"Starlink 23", "Starlink 23 mission">>)
                  => Accepted(l)

\* C4: on a one-row table the name test rejects "Starlink 23" for the
\* payload "Starlink 23 mission" as it rejects "Starlink 2" for it and
\* "SSO-A" for "SSO-B label text": a starlink name is accepted exactly for a
\* payload that is the name itself up to case and punctuation, while another
\* name is accepted for a payload that contains it ("CRS-2" for "CRS-21").
C4_StarlinkNeedsFullMatch ==
    Len(wikiPayloads) = 1 =>
        \A l \in 1..Len(upcoming) :
            /\ NameAndLabel(l) \in {<<"Starlink 23", "Starlink 23 mission">>,
                                    <<"Starlink 2", "Starlink 23 mission">>,
                                    <<"SSO-A", "SSO-B label text">>} => ~Accepted(l)
            /\ (upcoming[l].name \in StarlinkNames /\ Accepted(l))
                  => NameAndLabel(l) \in StarlinkSame
            /\ (pc = "done" /\ NameAndLabel(l) \in
                    StarlinkSame \cup {<<"SSO-A", "SSO-A">>, <<"CRS-2", "CRS-21">>})
                  => Accepted(l)

\* a complete pass left alone "Starlink 23" on the payload "Starlink 23
\* mission"
C4_Witness ==
    /\ pc = "done"
    /\ Len(wikiPayloads) = 1
    /\ \E l \in 1..Len(upcoming) :
          NameAndLabel(l) = <<"Starlink 23", "Starlink 23 mission">> /\ ~Accepted(l)

\* C5: in one pass no two launches are patched from the same row of the
\* table, and so no two launches are given the same flight number.
C5_OneLaunchPerRow ==
    \A i, j \in EventsOf("patch") :
        (trace[i].row = trace[j].row \/ trace[i].fn = trace[j].fn)
            => trace[i].id = trace[j].id

\* a complete pass patched "CRS-2" and "CRS-21" from the one row "CRS-21"
\* with the same flight number
C5_Witness ==
    /\ pc = "done"
    /\ wikiPayloads = <<"CRS-21">>
    /\ \E i, j \in EventsOf("patchDone") :
          /\ docs[trace[i].id].name = "CRS-2"
          /\ docs[trace[j].id].name = "CRS-21"
          /\ trace[i].row = trace[j].row
          /\ docs[trace[i].id].flight_number = docs[trace[j].id].flight_number

\* C7: the precision of a matched row is given by the make-up of its
\* noise-stripped date; a date of no shape ends the pass with 'No date
\* match'; tbd is set exactly if the raw cell contains "tbd" or "tba" in any
\* case, whatever the precision, and every precision occurs with either
\* value of tbd.
C7_PrecisionByShape ==
    /\ pc \in {"lookup", "patch"} =>
          /\ precision = ShapeOf[wikiDates[wikiIndex + 1]]
          /\ precision # "none"
          /\ tbd = TentativeOf[wikiDates[wikiIndex + 1]]
    /\ pc = "patch" =>
          /\ rawUpdate.date_precision = ShapeOf[wikiDates[wikiIndex + 1]]
          /\ rawUpdate.tbd = TentativeOf[wikiDates[wikiIndex + 1]]
    /\ error = "No date match" => ShapeOf[wikiDates[wikiIndex + 1]] = "none"
    /\ \A p \in MatchedPairs :
          ShapeOf[wikiDates[p[2] + 1]] = "none" => pc = "failed" /\ error # "none"
    /\ \A shape \in {"quarter", "half", "year", "month", "day", "hour"}, t \in BOOLEAN :
          \E c \in DateTexts : PrecisionOf[c] = shape /\ TbdOf[c] = t

\* an update of hour precision with tbd set is patched
C7_Witness ==
    /\ pc = "patch"
    /\ rawUpdate.date_precision = "hour"
    /\ rawUpdate.tbd
    /\ wikiDates[wikiIndex + 1] = "TBD 2020 Nov 4 [14:10]"

\* C8: for a row of half precision the date of the update is built from the
\* text in which H1 is replaced by 1 and H2 by 3.
C8_HalfReplacedInDateText ==
    (pc = "patch" /\ rawUpdate.date_precision = "half") =>
        rawUpdate.date = ReplacedTextOf[wikiDates[wikiIndex + 1]]

\* the update for the date "TBD 2021 H2" is patched with a date built from
\* the text "TBD 2021 H2 +0000"
C8_Witness ==
    /\ pc = "patch"
    /\ wikiDates[wikiIndex + 1] = "TBD 2021 H2"
    /\ rawUpdate.date_precision = "half"
    /\ rawUpdate.tbd
    /\ rawUpdate.date = <<"T", "B", "D", " ", "2", "0", "2", "1", " ", "H", "2", " ",
                          "+", "0", "0", "0", "0">>
    /\ wikiDate = <<"T", "B", "D", " ", "2", "0", "2", "1", " ", "3">>

====
